---- MODULE Spec2Model ----
(***************************************************************************)
(* Model of addon/globalPlugins/capitalSelectionIndicator.py: the patch    *)
(* of speech.speakSelectionChange that adds capital indicators when a      *)
(* single character is selected or unselected.                             *)
(*                                                                         *)
(* A document is DocLen characters at offsets 0..DocLen-1.  A TextInfo is  *)
(* a pair of offsets [start, end) into it.  Characters are code points;    *)
(* the document alternates upper and lower case letters, all distinct, so  *)
(* a text identifies the offsets it was read from.                         *)
(***************************************************************************)
EXTENDS Integers, Sequences, FiniteSets, TLC

\* Length of the document the selection lives in.
DocLen == 3

VARIABLES
    speakSelectionChange,            \* speech.speakSelectionChange: which function is bound
    originalSpeakSelectionChange,    \* module global _originalSpeakSelectionChange
    synth,                           \* getSynth() and its config.conf["speech"][synth.name]
    oldInfo, newInfo,                \* arguments of the last call of the patched function
    speakSelected, speakUnselected,  \*   "
    generalize,                      \*   "
    selectedTextList,                \* local list of the last call, after the diff
    unselectedTextList,              \*   "
    spoken                           \* host speech calls made by the last call, in order

vars == <<speakSelectionChange, originalSpeakSelectionChange, synth, oldInfo, newInfo,
          speakSelected, speakUnselected, generalize, selectedTextList,
          unselectedTextList, spoken>>

lifecycleVars == <<speakSelectionChange, originalSpeakSelectionChange>>

callVars == <<oldInfo, newInfo, speakSelected, speakUnselected, generalize,
              selectedTextList, unselectedTextList, spoken>>

-----------------------------------------------------------------------------
(* The host's text abstraction (textInfos.TextInfo over offsets).          *)

CharAt(i) == IF i % 2 = 0 THEN 65 + i ELSE 97 + i

TextInfos == {info \in [start : 0..DocLen, end : 0..DocLen] : info.start <= info.end}

isCollapsed(info) == info.start = info.end

text(info) == [i \in 1..(info.end - info.start) |-> CharAt(info.start + i - 1)]

copy(info) == info

compareEndPoints(self, other, which) ==
    CASE which = "startToStart" -> self.start - other.start
      [] which = "startToEnd"   -> self.start - other.end
      [] which = "endToStart"   -> self.end - other.start
      [] which = "endToEnd"     -> self.end - other.end

\* Variant: "endToStart" takes the other's end instead of its start.
setEndPointWrongEnd(self, other, which) ==
    CASE which = "endToStart" ->
            [start |-> IF self.start > other.end THEN other.end ELSE self.start,
             end   |-> other.end]
      [] which = "startToEnd" ->
            [start |-> other.end,
             end   |-> IF self.end < other.end THEN other.end ELSE self.end]

\* Moves one end of self to an end of other; the other end follows when the
\* move would leave start after end.
setEndPoint(self, other, which) ==
    CASE which = "endToStart" ->
            [start |-> IF self.start > other.start THEN other.start ELSE self.start,
             end   |-> other.start]
      [] which = "startToEnd" ->
            [start |-> other.end,
             end   |-> IF self.end < other.end THEN other.end ELSE self.end]

-----------------------------------------------------------------------------
(* Speech sequences.  A segment is a piece of text (a list of template     *)
(* tokens), the spoken form of one character, or a synthesizer command.    *)

TextSegment(tokens) == [kind |-> "text", str |-> tokens, num |-> 0]

PitchCommand(offset) == [kind |-> "PitchCommand", str |-> <<>>, num |-> offset]

BeepCommand == [kind |-> "BeepCommand", str |-> <<>>, num |-> 0]

\* characterProcessing.processSpeechSymbol(locale, char): the spoken form of char.
processSpeechSymbol(char) == [kind |-> "symbol", str |-> <<>>, num |-> char]

isupper(char) == char \in 65..90

\* Translated message templates, as token lists; "%s" is the placeholder.
SelectedTemplate == <<"%s", " selected">>

UnselectedTemplate == <<"%s", " unselected">>

SelectedInsteadTemplate == <<"%s", " selected instead">>

SelectionRemovedMessage == <<"selection removed">>

\* speech._getSpellingCharAddCapNotification: pitch up, beep, "cap", the
\* character, pitch back.
getSpellingCharAddCapNotification(speakCharAs, sayCap, capPitchChange, beep) ==
    (IF capPitchChange # 0 THEN <<PitchCommand(capPitchChange)>> ELSE <<>>)
    \o (IF beep THEN <<BeepCommand>> ELSE <<>>)
    \o (IF sayCap THEN <<TextSegment(<<"cap ">>)>> ELSE <<>>)
    \o <<speakCharAs>>
    \o (IF capPitchChange # 0 THEN <<PitchCommand(0)>> ELSE <<>>)

buildSpeechFromTemplate(template, charSequence) ==
    IF \A i \in 1..Len(template) : template[i] # "%s"
    THEN charSequence \o <<TextSegment(template)>>
    ELSE LET at     == CHOOSE i \in 1..Len(template) :
                           /\ template[i] = "%s"
                           /\ \A j \in 1..(i - 1) : template[j] # "%s"
             before == SubSeq(template, 1, at - 1)
             after  == SubSeq(template, at + 1, Len(template))
         IN  (IF before # <<>> THEN <<TextSegment(before)>> ELSE <<>>)
             \o charSequence
             \o (IF after # <<>> THEN <<TextSegment(after)>> ELSE <<>>)

\* The synthesizers getSynth() can return: none, or one with its settings.
NoSynth == [active |-> FALSE, supportsPitch |-> FALSE, capPitchChange |-> 0,
            sayCapForCapitals |-> FALSE, beepForCapitals |-> FALSE]

Synths == {NoSynth} \cup
          [active : {TRUE}, supportsPitch : BOOLEAN, capPitchChange : {30},
           sayCapForCapitals : BOOLEAN, beepForCapitals : BOOLEAN]

getSingleCharSelectionSpeech(char, messageTemplate, syn) ==
    IF ~syn.active
    THEN buildSpeechFromTemplate(messageTemplate, <<processSpeechSymbol(char)>>)
    ELSE LET capPitchChange == IF syn.supportsPitch THEN syn.capPitchChange ELSE 0
             speakCharAs    == processSpeechSymbol(char)
             uppercase      == isupper(char)
             charSequence   == getSpellingCharAddCapNotification(
                                   speakCharAs,
                                   uppercase /\ syn.sayCapForCapitals,
                                   IF uppercase THEN capPitchChange ELSE 0,
                                   uppercase /\ syn.beepForCapitals)
         IN  buildSpeechFromTemplate(messageTemplate, charSequence)

-----------------------------------------------------------------------------
(* Calls into the host's speech module, recorded in the order made.        *)

speak(seq) == [fn |-> "speak", message |-> <<>>, text |-> <<>>, seq |-> seq]

speakTextSelected(txt) ==
    [fn |-> "speakTextSelected", message |-> <<>>, text |-> txt, seq |-> <<>>]

speakSelectionMessage(message, txt) ==
    [fn |-> "speakSelectionMessage", message |-> message, text |-> txt, seq |-> <<>>]

speakMessage(message) ==
    [fn |-> "speakMessage", message |-> message, text |-> <<>>, seq |-> <<>>]

speakSingleCharSelected(char, syn) ==
    LET seq == getSingleCharSelectionSpeech(char, SelectedTemplate, syn)
    IN  IF seq # <<>> THEN <<speak(seq)>> ELSE <<>>

\* Variant: the unselected character is spoken with the "%s selected" template.
speakSingleCharUnselectedAsSelected(char, syn) ==
    LET seq == getSingleCharSelectionSpeech(char, SelectedTemplate, syn)
    IN  IF seq # <<>> THEN <<speak(seq)>> ELSE <<>>

speakSingleCharUnselected(char, syn) ==
    LET seq == getSingleCharSelectionSpeech(char, UnselectedTemplate, syn)
    IN  IF seq # <<>> THEN <<speak(seq)>> ELSE <<>>

-----------------------------------------------------------------------------
(* _patchedSpeakSelectionChange: the diff of the two selections.           *)

\* Variant: no test for selections that do not overlap.
diffSelectedNoDisjointTest(old, new, wantSelected, wantUnselected) ==
    LET startToStart == compareEndPoints(new, old, "startToStart")
        endToEnd     == compareEndPoints(new, old, "endToEnd")
    IN  IF wantSelected /\ isCollapsed(old) THEN <<text(new)>>
        ELSE IF wantUnselected /\ isCollapsed(new) THEN <<>>
        ELSE (IF wantSelected /\ startToStart < 0 /\ ~isCollapsed(new)
              THEN <<text(setEndPoint(copy(new), old, "endToStart"))>>
              ELSE <<>>)
             \o
             (IF wantSelected /\ endToEnd > 0 /\ ~isCollapsed(new)
              THEN <<text(setEndPoint(copy(new), old, "startToEnd"))>>
              ELSE <<>>)

\* selectedTextList when the diff is done (both-collapsed return excluded).
diffSelected(old, new, wantSelected, wantUnselected) ==
    LET startToStart == compareEndPoints(new, old, "startToStart")
        startToEnd   == compareEndPoints(new, old, "startToEnd")
        endToStart   == compareEndPoints(new, old, "endToStart")
        endToEnd     == compareEndPoints(new, old, "endToEnd")
    IN  IF wantSelected /\ isCollapsed(old) THEN <<text(new)>>
        ELSE IF wantUnselected /\ isCollapsed(new) THEN <<>>
        ELSE IF startToEnd > 0 \/ endToStart < 0
             THEN IF wantSelected /\ ~isCollapsed(new) THEN <<text(new)>> ELSE <<>>
             ELSE (IF wantSelected /\ startToStart < 0 /\ ~isCollapsed(new)
                   THEN <<text(setEndPoint(copy(new), old, "endToStart"))>>
                   ELSE <<>>)
                  \o
                  (IF wantSelected /\ endToEnd > 0 /\ ~isCollapsed(new)
                   THEN <<text(setEndPoint(copy(new), old, "startToEnd"))>>
                   ELSE <<>>)

\* Variant: the partial spans are taken when the ends are equal too.
diffUnselectedOffByOne(old, new, wantSelected, wantUnselected) ==
    LET startToStart == compareEndPoints(new, old, "startToStart")
        startToEnd   == compareEndPoints(new, old, "startToEnd")
        endToStart   == compareEndPoints(new, old, "endToStart")
        endToEnd     == compareEndPoints(new, old, "endToEnd")
    IN  IF wantSelected /\ isCollapsed(old) THEN <<>>
        ELSE IF wantUnselected /\ isCollapsed(new) THEN <<text(old)>>
        ELSE IF startToEnd > 0 \/ endToStart < 0
             THEN IF wantUnselected /\ ~isCollapsed(old) THEN <<text(old)>> ELSE <<>>
             ELSE (IF startToStart >= 0 /\ ~isCollapsed(old)
                   THEN <<text(setEndPoint(copy(old), new, "endToStart"))>>
                   ELSE <<>>)
                  \o
                  (IF endToEnd <= 0 /\ ~isCollapsed(old)
                   THEN <<text(setEndPoint(copy(old), new, "startToEnd"))>>
                   ELSE <<>>)

\* Variant: a shrunk selection unselects the whole old text, not the part dropped.
diffUnselectedWholeOld(old, new, wantSelected, wantUnselected) ==
    LET startToStart == compareEndPoints(new, old, "startToStart")
        startToEnd   == compareEndPoints(new, old, "startToEnd")
        endToStart   == compareEndPoints(new, old, "endToStart")
        endToEnd     == compareEndPoints(new, old, "endToEnd")
    IN  IF wantSelected /\ isCollapsed(old) THEN <<>>
        ELSE IF wantUnselected /\ isCollapsed(new) THEN <<text(old)>>
        ELSE IF startToEnd > 0 \/ endToStart < 0
             THEN IF wantUnselected /\ ~isCollapsed(old) THEN <<text(old)>> ELSE <<>>
             ELSE IF (startToStart > 0 \/ endToEnd < 0) /\ ~isCollapsed(old)
                  THEN <<text(old)>>
                  ELSE <<>>

\* unselectedTextList when the diff is done (both-collapsed return excluded).
diffUnselected(old, new, wantSelected, wantUnselected) ==
    LET startToStart == compareEndPoints(new, old, "startToStart")
        startToEnd   == compareEndPoints(new, old, "startToEnd")
        endToStart   == compareEndPoints(new, old, "endToStart")
        endToEnd     == compareEndPoints(new, old, "endToEnd")
    IN  IF wantSelected /\ isCollapsed(old) THEN <<>>
        ELSE IF wantUnselected /\ isCollapsed(new) THEN <<text(old)>>
        ELSE IF startToEnd > 0 \/ endToStart < 0
             THEN IF wantUnselected /\ ~isCollapsed(old) THEN <<text(old)>> ELSE <<>>
             ELSE (IF startToStart > 0 /\ ~isCollapsed(old)
                   THEN <<text(setEndPoint(copy(old), new, "endToStart"))>>
                   ELSE <<>>)
                  \o
                  (IF endToEnd < 0 /\ ~isCollapsed(old)
                   THEN <<text(setEndPoint(copy(old), new, "startToEnd"))>>
                   ELSE <<>>)

-----------------------------------------------------------------------------
(* _patchedSpeakSelectionChange: speaking the two lists.                   *)

\* Variant: without a synthesizer a single character goes the host's way.
speakOneSelectedNeedsSynth(txt, syn) ==
    IF Len(txt) = 1 /\ syn.active THEN speakSingleCharSelected(txt[1], syn)
    ELSE <<speakTextSelected(txt)>>

speakOneSelected(txt, syn) ==
    IF Len(txt) = 1 THEN speakSingleCharSelected(txt[1], syn)
    ELSE <<speakTextSelected(txt)>>

speakOneUnselected(txt, syn) ==
    IF Len(txt) = 1 THEN speakSingleCharUnselected(txt[1], syn)
    ELSE <<speakSelectionMessage(UnselectedTemplate, txt)>>

speakReplaced(txt, syn) ==
    IF Len(txt) = 1 THEN speakSingleCharUnselected(txt[1], syn)
    ELSE <<speakSelectionMessage(SelectedInsteadTemplate, txt)>>

RECURSIVE speakEachSelected(_, _)
speakEachSelected(textList, syn) ==
    IF textList = <<>> THEN <<>>
    ELSE speakOneSelected(Head(textList), syn) \o speakEachSelected(Tail(textList), syn)

RECURSIVE speakEachUnselected(_, _)
speakEachUnselected(textList, syn) ==
    IF textList = <<>> THEN <<>>
    ELSE speakOneUnselected(Head(textList), syn)
         \o speakEachUnselected(Tail(textList), syn)

speakSelectedSide(new, selList, wantSelected, general, syn) ==
    IF ~wantSelected THEN <<>>
    ELSE IF ~general THEN speakEachSelected(selList, syn)
    ELSE IF Len(selList) > 0 THEN speakOneSelected(text(new), syn)
    ELSE <<>>

\* Variant: the unselected list is spoken whatever speakUnselected says.
speakUnselectedSideUngated(new, unselList, wantUnselected, general, syn) ==
    IF ~general THEN speakEachUnselected(unselList, syn)
    ELSE IF Len(unselList) > 0
         THEN IF ~isCollapsed(new) THEN speakReplaced(text(new), syn)
              ELSE <<speakMessage(SelectionRemovedMessage)>>
    ELSE <<>>

speakUnselectedSide(new, unselList, wantUnselected, general, syn) ==
    IF ~wantUnselected THEN <<>>
    ELSE IF ~general THEN speakEachUnselected(unselList, syn)
    ELSE IF Len(unselList) > 0
         THEN IF ~isCollapsed(new) THEN speakReplaced(text(new), syn)
              ELSE <<speakMessage(SelectionRemovedMessage)>>
    ELSE <<>>

-----------------------------------------------------------------------------
(* State machine.                                                          *)

Init ==
    /\ speakSelectionChange = "original"
    /\ originalSpeakSelectionChange = "None"
    /\ synth = NoSynth
    /\ oldInfo = [start |-> 0, end |-> 0]
    /\ newInfo = [start |-> 0, end |-> 0]
    /\ speakSelected = TRUE
    /\ speakUnselected = TRUE
    /\ generalize = FALSE
    /\ selectedTextList = <<>>
    /\ unselectedTextList = <<>>
    /\ spoken = <<>>

\* GlobalPlugin.__init__
Activate ==
    /\ originalSpeakSelectionChange' = speakSelectionChange
    /\ speakSelectionChange' = "patched"
    /\ UNCHANGED <<synth, callVars>>

\* Variant: terminate without the test for a saved function.
TerminateUnguarded ==
    /\ speakSelectionChange' = originalSpeakSelectionChange
    /\ originalSpeakSelectionChange' = "None"
    /\ UNCHANGED <<synth, callVars>>

\* Variant: terminate binds the host's function, whatever was saved.
TerminateBindsHostFunction ==
    /\ IF originalSpeakSelectionChange # "None"
       THEN /\ speakSelectionChange' = "original"
            /\ originalSpeakSelectionChange' = "None"
       ELSE UNCHANGED lifecycleVars
    /\ UNCHANGED <<synth, callVars>>

\* GlobalPlugin.terminate
Terminate ==
    /\ IF originalSpeakSelectionChange # "None"
       THEN /\ speakSelectionChange' = originalSpeakSelectionChange
            /\ originalSpeakSelectionChange' = "None"
       ELSE UNCHANGED lifecycleVars
    /\ UNCHANGED <<synth, callVars>>

\* The host switches synthesizer or changes its capital-letter settings.
SetSynth ==
    /\ \E syn \in Synths : synth' = syn
    /\ UNCHANGED <<lifecycleVars, callVars>>

\* One call speech.speakSelectionChange(old, new, ...) while the patch is bound.
patchedSpeakSelectionChange(old, new, wantSelected, wantUnselected, general) ==
    /\ speakSelectionChange = "patched"
    /\ oldInfo' = old
    /\ newInfo' = new
    /\ speakSelected' = wantSelected
    /\ speakUnselected' = wantUnselected
    /\ generalize' = general
    /\ IF isCollapsed(new) /\ isCollapsed(old)
       THEN /\ selectedTextList' = <<>>
            /\ unselectedTextList' = <<>>
            /\ spoken' = <<>>
       ELSE /\ selectedTextList' = diffSelected(old, new, wantSelected, wantUnselected)
            /\ unselectedTextList' = diffUnselected(old, new, wantSelected, wantUnselected)
            /\ spoken' = speakSelectedSide(new, selectedTextList', wantSelected,
                                           general, synth)
                         \o speakUnselectedSide(new, unselectedTextList', wantUnselected,
                                                general, synth)
    /\ UNCHANGED <<lifecycleVars, synth>>

\* The selection moves from what it is now to any other; the host announces it.
SelectionChange ==
    \E new \in TextInfos, wantSelected \in BOOLEAN, wantUnselected \in BOOLEAN,
       general \in BOOLEAN :
        patchedSpeakSelectionChange(newInfo, new, wantSelected, wantUnselected, general)

Next == Activate \/ Terminate \/ SetSynth \/ SelectionChange

Spec == Init /\ [][Next]_vars

-----------------------------------------------------------------------------
(* Vocabulary of the properties.                                           *)

bothCollapsed == isCollapsed(newInfo) /\ isCollapsed(oldInfo)

Positions(info) == {i \in 0..(DocLen - 1) : info.start <= i /\ i < info.end}

PositionsOfText(txt) ==
    {i \in 0..(DocLen - 1) : \E k \in 1..Len(txt) : txt[k] = CharAt(i)}

RECURSIVE PositionsOfTexts(_)
PositionsOfTexts(textList) ==
    IF textList = <<>> THEN {}
    ELSE PositionsOfText(Head(textList)) \cup PositionsOfTexts(Tail(textList))

RECURSIVE TotalLen(_)
TotalLen(textList) ==
    IF textList = <<>> THEN 0 ELSE Len(Head(textList)) + TotalLen(Tail(textList))

\* The words of a template around its placeholder, as they appear in a sequence.
TemplateWords(template) ==
    LET NotPlaceholder(t) == t # "%s"
    IN  TextSegment(SelectSeq(template, NotPlaceholder))

\* ann says what this template says (speakTextSelected is the host's "%s selected").
UsesTemplate(ann, template) ==
    \/ ann.fn \in {"speakSelectionMessage", "speakMessage"} /\ ann.message = template
    \/ ann.fn = "speakTextSelected" /\ template = SelectedTemplate
    \/ ann.fn = "speak" /\ \E i \in 1..Len(ann.seq) : ann.seq[i] = TemplateWords(template)

\* The text an announcement is about.
Carried(ann) ==
    IF ann.fn = "speak"
    THEN LET IsSymbol(seg) == seg.kind = "symbol"
             symbols == SelectSeq(ann.seq, IsSymbol)
         IN  [i \in 1..Len(symbols) |-> symbols[i].num]
    ELSE ann.text

\* ann went through the add-on's own path: a sequence built around one character.
OwnPath(ann) == ann.fn = "speak"

\* ann went through the host's multi-character announcement of a text.
HostPath(ann) == ann.fn \in {"speakTextSelected", "speakSelectionMessage"}

Templates == {SelectedTemplate, UnselectedTemplate, SelectedInsteadTemplate,
              SelectionRemovedMessage}

\* ann is the add-on's announcement of the one character char with this template.
SingleCharAnnouncement(ann, template, char) ==
    /\ OwnPath(ann)
    /\ Carried(ann) = <<char>>
    /\ \A t \in Templates : UsesTemplate(ann, t) <=> t = template

SelectedSide(anns) ==
    LET IsSelected(ann) == UsesTemplate(ann, SelectedTemplate)
    IN  SelectSeq(anns, IsSelected)

UnselectedSide(anns) ==
    LET IsUnselected(ann) == ~UsesTemplate(ann, SelectedTemplate)
    IN  SelectSeq(anns, IsUnselected)

CarriedTexts(anns) == [i \in 1..Len(anns) |-> Carried(anns[i])]

\* The announcements of the last call that speak a text.
AnnouncedSpans ==
    LET HasText(ann) == ann.fn # "speakMessage"
    IN  SelectSeq(spoken, HasText)

\* The patch is bound and the host's function is saved nowhere.
OriginalLost ==
    speakSelectionChange = "patched" /\ originalSpeakSelectionChange # "original"

-----------------------------------------------------------------------------
(* C1: terminate restores the saved function exactly when one is saved: a  *)
(* step that clears the saved reference binds speech.speakSelectionChange  *)
(* to it; a step taken with nothing saved that leaves nothing saved leaves *)
(* the binding alone; and the first activation saves the host's original,  *)
(* so that terminating after it binds the host's original again.           *)
TerminateRestoresExactlyWhenSaved ==
    [][ /\ (originalSpeakSelectionChange # "None" /\ originalSpeakSelectionChange' = "None")
            => speakSelectionChange' = originalSpeakSelectionChange
        /\ (originalSpeakSelectionChange = "None" /\ originalSpeakSelectionChange' = "None")
            => speakSelectionChange' = speakSelectionChange
        /\ (speakSelectionChange = "original" /\ speakSelectionChange' # "original")
            => originalSpeakSelectionChange' = "original"
        /\ (originalSpeakSelectionChange = "original" /\ originalSpeakSelectionChange' = "None")
            => speakSelectionChange' = "original"
      ]_vars

\* Activated, used, and terminated: the host's function is bound again.
RestoredAfterUse ==
    /\ speakSelectionChange = "original"
    /\ originalSpeakSelectionChange = "None"
    /\ spoken # <<>>

(* C2: a reference saved while the patch is already bound is the patch     *)
(* itself, and once the patch is bound with the host's original saved      *)
(* nowhere, no step binds the host's original again.                       *)
DoubleInstallBreaksRestoration ==
    [][ /\ (/\ speakSelectionChange = "patched"
            /\ originalSpeakSelectionChange' # originalSpeakSelectionChange
            /\ originalSpeakSelectionChange' # "None")
            => originalSpeakSelectionChange' = "patched"
        /\ OriginalLost => OriginalLost'
      ]_vars

\* Terminated after a double activation: the patch is still bound.
StillPatchedAfterTerminate ==
    speakSelectionChange = "patched" /\ originalSpeakSelectionChange = "None"

(* C3: with both flags on and generalize off, a call that selects one      *)
(* character from a collapsed selection followed by the call that          *)
(* unselects it makes exactly one announcement each: the character with    *)
(* the "%s selected" template, then the character with "%s unselected".    *)
SelectThenDeselectSingleChar ==
    [][ (/\ speakSelected /\ speakUnselected /\ ~generalize
         /\ isCollapsed(oldInfo) /\ Len(text(newInfo)) = 1
         /\ speakSelected' /\ speakUnselected' /\ ~generalize'
         /\ oldInfo' = newInfo /\ isCollapsed(newInfo'))
        => /\ Len(spoken) = 1
           /\ SingleCharAnnouncement(spoken[1], SelectedTemplate, text(newInfo)[1])
           /\ Len(spoken') = 1
           /\ SingleCharAnnouncement(spoken'[1], UnselectedTemplate, text(newInfo)[1])
      ]_vars

\* The state after the second call: one character was just unselected.
SingleCharJustUnselected ==
    /\ speakSelected /\ speakUnselected /\ ~generalize
    /\ Len(text(oldInfo)) = 1 /\ isCollapsed(newInfo)
    /\ Len(spoken) = 1
    /\ SingleCharAnnouncement(spoken[1], UnselectedTemplate, text(oldInfo)[1])

(* C4: in generalize mode with speakUnselected on and a non-empty          *)
(* unselected list, the last announcement is the new selection's whole     *)
(* text with the "%s selected instead" template (through the add-on's own  *)
(* path when it is one character), nothing uses "%s unselected", and when  *)
(* the new selection is collapsed it is the message "selection removed".   *)
GeneralizeAnnouncesSelectedInstead ==
    (~bothCollapsed /\ generalize /\ speakUnselected /\ unselectedTextList # <<>>)
    => /\ spoken # <<>>
       /\ LET last == spoken[Len(spoken)]
          IN  IF ~isCollapsed(newInfo)
              THEN /\ UsesTemplate(last, SelectedInsteadTemplate)
                   /\ Carried(last) = text(newInfo)
                   /\ Len(text(newInfo)) = 1 => OwnPath(last)
                   /\ \A i \in 1..Len(spoken) :
                          ~UsesTemplate(spoken[i], UnselectedTemplate)
              ELSE last = speakMessage(SelectionRemovedMessage)

(* C5: with both flags on, two non-collapsed selections that share no      *)
(* position (touching at an end included) give exactly one selected span,  *)
(* all of the new selection, and one unselected span, all of the old one.  *)
DisjointIsFullReplacement ==
    (/\ speakSelected /\ speakUnselected
     /\ ~isCollapsed(oldInfo) /\ ~isCollapsed(newInfo)
     /\ Positions(oldInfo) \cap Positions(newInfo) = {})
    => /\ selectedTextList = <<text(newInfo)>>
       /\ unselectedTextList = <<text(oldInfo)>>

\* The new selection starts where the old one ended.
TouchingReplacement ==
    /\ speakSelected /\ speakUnselected
    /\ ~isCollapsed(oldInfo) /\ ~isCollapsed(newInfo)
    /\ newInfo.start = oldInfo.end
    /\ selectedTextList = <<text(newInfo)>>
    /\ unselectedTextList = <<text(oldInfo)>>

(* C6: with both flags on, a new selection that extends a non-collapsed    *)
(* old one on both sides gives two selected spans, the left extension and  *)
(* then the right one, and no unselected span.                             *)
ExtensionOnBothSides ==
    (/\ speakSelected /\ speakUnselected
     /\ ~isCollapsed(oldInfo)
     /\ newInfo.start < oldInfo.start /\ newInfo.end > oldInfo.end)
    => /\ selectedTextList =
              <<text([start |-> newInfo.start, end |-> oldInfo.start]),
                text([start |-> oldInfo.end, end |-> newInfo.end])>>
       /\ unselectedTextList = <<>>

\* A selection grown on both sides, with its two extensions listed.
GrownOnBothSides ==
    /\ speakSelected /\ speakUnselected
    /\ ~isCollapsed(oldInfo)
    /\ newInfo.start < oldInfo.start /\ newInfo.end > oldInfo.end
    /\ Len(selectedTextList) = 2
    /\ unselectedTextList = <<>>

(* C7 as stated: past the both-collapsed return, exactly one of the two    *)
(* lists is non-empty.                                                     *)
ExactlyOneListPopulated ==
    ~bothCollapsed => ((selectedTextList = <<>>) # (unselectedTextList = <<>>))

(* C7 amended: with both flags on, past the both-collapsed return the      *)
(* selected list is non-empty exactly when the new selection covers a      *)
(* position the old one does not, and the unselected list exactly when the *)
(* old selection covers a position the new one does not.                   *)
ListsPopulatedByDifference ==
    (~bothCollapsed /\ speakSelected /\ speakUnselected)
    => /\ (selectedTextList # <<>>)
              <=> (Positions(newInfo) \ Positions(oldInfo) # {})
       /\ (unselectedTextList # <<>>)
              <=> (Positions(oldInfo) \ Positions(newInfo) # {})

\* A non-collapsed selection grew: only the selected list is populated.
OnlySelectedPopulated ==
    /\ speakSelected /\ speakUnselected
    /\ ~isCollapsed(oldInfo) /\ ~isCollapsed(newInfo)
    /\ selectedTextList # <<>> /\ unselectedTextList = <<>>

(* C8 as stated: an announcement goes through the add-on's own path        *)
(* exactly when its text is one character and a synthesizer is active.     *)
OwnPathOnlyWithSynth ==
    [][ spoken' # spoken
        => \A i \in 1..Len(spoken') :
               OwnPath(spoken'[i])
                   <=> (Len(Carried(spoken'[i])) = 1 /\ synth'.active)
      ]_vars

(* C8 amended: every announced span whose text is one character goes       *)
(* through the add-on's own path, whatever the synthesizer, and every      *)
(* other span through the host's multi-character announcement with its     *)
(* text unchanged.                                                         *)
OwnPathExactlyForSingleChar ==
    /\ \A i \in 1..Len(AnnouncedSpans) :
           LET ann == AnnouncedSpans[i]
           IN  /\ OwnPath(ann) <=> Len(Carried(ann)) = 1
               /\ HostPath(ann) <=> Len(Carried(ann)) # 1
               /\ generalize => Carried(ann) = text(newInfo)
    /\ ~generalize =>
           CarriedTexts(spoken) =
               (IF speakSelected THEN selectedTextList ELSE <<>>)
               \o (IF speakUnselected THEN unselectedTextList ELSE <<>>)

\* One call announced a single character and a longer text.
BothPathsTaken ==
    \E i, j \in 1..Len(spoken) :
        /\ OwnPath(spoken[i]) /\ Len(Carried(spoken[i])) = 1
        /\ HostPath(spoken[j]) /\ Len(Carried(spoken[j])) > 1

(* C9: with both flags on and generalize off, the texts announced as       *)
(* selected cover exactly the positions of the new selection that are not  *)
(* in the old one, the texts announced as unselected exactly those of the  *)
(* old one not in the new one, no text is empty, no position is covered    *)
(* twice, and nothing is announced when both are collapsed or equal.       *)
AnnouncesExactlyTheDelta ==
    (speakSelected /\ speakUnselected /\ ~generalize)
    => LET sel   == CarriedTexts(SelectedSide(spoken))
           unsel == CarriedTexts(UnselectedSide(spoken))
       IN  /\ PositionsOfTexts(sel) = Positions(newInfo) \ Positions(oldInfo)
           /\ PositionsOfTexts(unsel) = Positions(oldInfo) \ Positions(newInfo)
           /\ \A i \in 1..Len(sel) : sel[i] # <<>>
           /\ \A i \in 1..Len(unsel) : unsel[i] # <<>>
           /\ TotalLen(sel) + TotalLen(unsel) =
                  Cardinality(PositionsOfTexts(sel) \cup PositionsOfTexts(unsel))
           /\ (bothCollapsed \/ oldInfo = newInfo) => spoken = <<>>

\* The selection shifted: part kept, part added, part dropped, both announced.
ShiftedSelectionAnnounced ==
    /\ speakSelected /\ speakUnselected /\ ~generalize
    /\ Positions(oldInfo) \cap Positions(newInfo) # {}
    /\ SelectedSide(spoken) # <<>>
    /\ UnselectedSide(spoken) # <<>>

(* C10: in every call, a side whose flag is off announces nothing, and     *)
(* each side announces what it would announce with the other side's flag   *)
(* the other way round.                                                    *)
FlagsGateTheirOwnSide ==
    [][ (synth' = synth /\ callVars' # callVars /\ ~bothCollapsed')
        => /\ ~speakSelected' => SelectedSide(spoken') = <<>>
           /\ ~speakUnselected' => UnselectedSide(spoken') = <<>>
           /\ SelectedSide(spoken') =
                  speakSelectedSide(newInfo',
                      diffSelected(oldInfo', newInfo', speakSelected', ~speakUnselected'),
                      speakSelected', generalize', synth')
           /\ UnselectedSide(spoken') =
                  speakUnselectedSide(newInfo',
                      diffUnselected(oldInfo', newInfo', ~speakSelected', speakUnselected'),
                      speakUnselected', generalize', synth')
      ]_vars

\* Unselected spans were found, speakUnselected is off, only the selected side spoke.
UnselectedFoundButSilent ==
    /\ speakSelected /\ ~speakUnselected
    /\ unselectedTextList # <<>>
    /\ SelectedSide(spoken) # <<>>
    /\ UnselectedSide(spoken) = <<>>

====
